---- MODULE Spec2Model ----
(***************************************************************************)
(* Model of dashboard.py, the Streamlit farmer-monitoring dashboard.       *)
(*                                                                         *)
(* One Streamlit session is modelled.  The script is re-executed from top  *)
(* to bottom on every user interaction; what survives between executions   *)
(* is st.session_state and the widget values.  Each action below is one    *)
(* interaction followed by the complete script execution it triggers.      *)
(*                                                                         *)
(* Data representation                                                     *)
(*   - every CSV cell is a string; NaN is the missing cell read_csv makes   *)
(*     of an empty field;                                                  *)
(*   - a pandas Timestamp is [day, tod]: day is the day of January 2024,    *)
(*     tod the minutes after midnight; NaT is the null timestamp;          *)
(*   - a datetime.date (what st.date_input returns) is the day number;      *)
(*   - a DataFrame is a sequence of rows; None is a value of its own;      *)
(*   - an exception is a record [exc, names, found]: its class, the field  *)
(*     names its message mentions and the column list its message prints.  *)
(***************************************************************************)
EXTENDS Integers, Sequences, FiniteSets, TLC

VARIABLES
    surveyFile,     \* what pd.read_csv('Raw_data.csv') meets
    gpsFile,        \* what pd.read_csv('gps_raw.csv') meets
    mapFile,        \* what gpd.read_file('zip://Polygons_Shapefile.zip') meets
    session_state,  \* st.session_state: a function from the keys present
    widgets,        \* values of the widgets rendered so far, by name
    found_columns,  \* found_columns of the last load_survey_data call
    loads,          \* how many times each load_* function has been called
    out             \* what the last script execution displayed

vars == <<surveyFile, gpsFile, mapFile, session_state, widgets,
          found_columns, loads, out>>

----------------------------------------------------------------------------
(* Bounds of the model *)

MaxRows == 2

MaxLoads == 3

----------------------------------------------------------------------------
(* Constants of the script *)

OVERALL_TARGET == 120

CERTIFIED_VILLAGES ==
    << "ALTO ANDINO", "ALTO RIOJA", "DINAMARCA", "FLOR DE MAYO",
       "FLOR DE PRIMAVERA", "GERVACIO", "HUICUNGO", "MONTE RICO",
       "SANTA MARTHA", "VILLA HERMOSA", "EL PARAISO", "LA PERLA" >>

PROJECT_VILLAGES == << "VISTA ALEGRE", "CHUMBAQUIHUI", "KACHIPAMPA" >>

Range(s) == { s[i] : i \in DOMAIN s }

ALL_VILLAGES == Range(CERTIFIED_VILLAGES) \cup Range(PROJECT_VILLAGES)

village_list == {"All"} \cup ALL_VILLAGES

village_type_options == {"All", "Certified Villages", "Project Villages"}

column_map ==
    [ Date    |-> << "today", "Date", "date", "Fecha" >>,
      Village |-> << "village", "Village", "Aldea", "Comunidad" >> ]

PASSWORD == "secret"

----------------------------------------------------------------------------
(* Values *)

NaN == "NaN"

NaT == [day |-> 0, tod |-> 0]

None == [none |-> TRUE, rows |-> << >>]

DataFrame(rows) == [none |-> FALSE, rows |-> rows]

NoError == [exc |-> "None", names |-> {}, found |-> {}]

Exception(exc) == [exc |-> exc, names |-> {}, found |-> {}]

(* Timestamp comparison, as pandas compares datetime64 values *)
TsLeq(a, b) == a.day < b.day \/ (a.day = b.day /\ a.tod <= b.tod)

(* pd.to_datetime(cell, dayfirst=True, errors='coerce') on the cell values  *)
(* of the model: day/month/year, an optional time of day; anything else,   *)
(* the missing cell included, is coerced to NaT.                           *)
to_datetime(cell) ==
    CASE cell = "01/01/2024"       -> [day |-> 1, tod |-> 0]
      [] cell = "01/01/2024 10:00" -> [day |-> 1, tod |-> 600]
      [] cell = "02/01/2024"       -> [day |-> 2, tod |-> 0]
      [] cell = "02/01/2024 10:00" -> [day |-> 2, tod |-> 600]
      [] cell = "03/01/2024 10:00" -> [day |-> 3, tod |-> 600]
      [] OTHER                     -> NaT

(* pd.to_datetime(d) of a datetime.date: midnight of that day *)
date_to_datetime(d) == [day |-> d, tod |-> 0]

(* Series.dt.date *)
dt_date(ts) == ts.day

(* str.upper() on the village values of the model; NaN stays NaN *)
str_upper(cell) ==
    CASE cell = "huicungo"     -> "HUICUNGO"
      [] cell = "Vista Alegre" -> "VISTA ALEGRE"
      [] cell = "la perla"     -> "LA PERLA"
      [] OTHER                 -> cell

----------------------------------------------------------------------------
(* load_survey_data *)

NotFound == "<not found>"

(* faulty variant: the loop without its break, so the last match wins *)
RECURSIVE last_present(_, _, _)
last_present(possible_names, columns, i) ==
    IF i > Len(possible_names) THEN NotFound
    ELSE LET rest == last_present(possible_names, columns, i + 1)
         IN  IF rest # NotFound THEN rest
             ELSE IF possible_names[i] \in columns THEN possible_names[i]
             ELSE NotFound

(* the inner loop of lines 67-70: the first possible name that is a column *)
RECURSIVE first_present(_, _, _)
first_present(possible_names, columns, i) ==
    IF i > Len(possible_names) THEN NotFound
    ELSE IF possible_names[i] \in columns THEN possible_names[i]
    ELSE first_present(possible_names, columns, i + 1)

find_name(possible_names, columns) == first_present(possible_names, columns, 1)

(* lines 65-70: found_columns as a function from the target names found *)
resolve_columns(columns) ==
    [ t \in { u \in DOMAIN column_map :
                 find_name(column_map[u], columns) # NotFound } |->
        find_name(column_map[t], columns) ]

(* df.rename leaves two columns called `target` when the frame already has *)
(* a column of that name besides the one renamed to it; df[target] is then *)
(* a DataFrame and to_datetime / .str raise on it.                         *)
duplicated(columns, found, target) ==
    found[target] # target /\ target \in columns

(* .str raises AttributeError on a column without string values: a column  *)
(* of a non-empty frame whose cells are all missing is float64.            *)
all_missing(rows, col) ==
    Len(rows) > 0 /\ \A i \in 1..Len(rows) : rows[i][col] = NaN

(* lines 74-77: the frame with Date parsed and Village upper-cased *)
normalize(rows, found) ==
    [ i \in 1..Len(rows) |->
        [ Date    |-> to_datetime(rows[i][found["Date"]]),
          Village |-> str_upper(rows[i][found["Village"]]) ] ]

has_date(r) == r.Date # NaT

has_village(r) == r.Village # NaN

(* faulty variant: the rows are dropped on the Village column instead *)
dropna_village(rows) == SelectSeq(rows, has_village)

(* line 78: df.dropna(subset=['Date']) *)
dropna(rows) == SelectSeq(rows, has_date)

(* lines 71-79, once found_columns is known *)
survey_frame(columns, rows, found) ==
    IF "Date" \notin DOMAIN found \/ "Village" \notin DOMAIN found
    THEN [data  |-> None,
          error |-> [exc |-> "FileNotFoundError", names |-> {},
                     found |-> columns],
          found |-> found]
    ELSE IF duplicated(columns, found, "Date")
    THEN [data |-> None, error |-> Exception("ValueError"), found |-> found]
    ELSE IF duplicated(columns, found, "Village")
            \/ all_missing(rows, found["Village"])
    THEN [data |-> None, error |-> Exception("AttributeError"),
          found |-> found]
    ELSE [data  |-> DataFrame(dropna(normalize(rows, found))),
          error |-> NoError,
          found |-> found]

(* load_survey_data: [data, error, found]; error # NoError is the raise *)
load_survey_data ==
    IF surveyFile.kind = "missing"
    THEN [data |-> None, error |-> Exception("FileNotFoundError"),
          found |-> << >>]
    ELSE IF surveyFile.kind = "unreadable"
    THEN [data |-> None, error |-> Exception("ParserError"), found |-> << >>]
    ELSE survey_frame(surveyFile.columns, surveyFile.rows,
                      resolve_columns(surveyFile.columns))

----------------------------------------------------------------------------
(* load_gps_data and load_map_data *)

(* str.replace('_', ' ').str.title() on the type values of the model *)
land_use_label(type) ==
    CASE type = "coffee_farm" -> "Coffee Farm"
      [] type = "forest"      -> "Forest"
      [] OTHER                -> type

(* load_gps_data: [raised, value].  Only FileNotFoundError is caught (line *)
(* 92); any other exception of read_csv or of .str leaves the function.    *)
load_gps_data ==
    IF gpsFile.kind \in {"missing", "notype"}
    THEN [raised |-> FALSE, value |-> None]
    ELSE IF gpsFile.kind = "unreadable"
    THEN [raised |-> TRUE, value |-> None]
    ELSE [raised |-> FALSE,
          value  |-> DataFrame([ i \in 1..Len(gpsFile.rows) |->
                                   land_use_label(gpsFile.rows[i]) ])]

(* load_map_data: [data, error]; error # NoError is the raise *)
load_map_data ==
    IF mapFile.kind = "missing"
    THEN [data |-> None, error |-> Exception("DriverError")]
    ELSE IF mapFile.kind = "nocolumn"
    THEN [data |-> None, error |-> Exception("KeyError")]
    ELSE [data |-> DataFrame(mapFile.rows), error |-> NoError]

----------------------------------------------------------------------------
(* Tab 1: filters and aggregations *)

RECURSIVE min_ts(_, _)
min_ts(rows, i) ==
    IF i = Len(rows) THEN rows[i].Date
    ELSE LET m == min_ts(rows, i + 1)
         IN  IF TsLeq(rows[i].Date, m) THEN rows[i].Date ELSE m

RECURSIVE max_ts(_, _)
max_ts(rows, i) ==
    IF i = Len(rows) THEN rows[i].Date
    ELSE LET m == max_ts(rows, i + 1)
         IN  IF TsLeq(m, rows[i].Date) THEN rows[i].Date ELSE m

(* lines 171-172 *)
min_date(rows) == min_ts(rows, 1)

max_date(rows) == max_ts(rows, 1)

(* the value of the date_input when the user has not touched it: the       *)
(* default (min_date, max_date) as dates                                   *)
default_dates(rows) == << dt_date(min_date(rows)), dt_date(max_date(rows)) >>

(* lines 181-185 *)
date_range(selected_dates, rows) ==
    IF Len(selected_dates) # 2
    THEN [start |-> min_date(rows), end |-> max_date(rows), warning |-> TRUE]
    ELSE [start   |-> date_to_datetime(selected_dates[1]),
          end     |-> date_to_datetime(selected_dates[2]),
          warning |-> FALSE]

(* line 187 *)
filter_dates(rows, start, end) ==
    SelectSeq(rows, LAMBDA r : TsLeq(start, r.Date) /\ TsLeq(r.Date, end))

(* lines 188-195 *)
filter_selection(rows, village_type, selected_village) ==
    LET by_type ==
            IF village_type = "Certified Villages"
            THEN SelectSeq(rows, LAMBDA r : r.Village \in Range(CERTIFIED_VILLAGES))
            ELSE IF village_type = "Project Villages"
            THEN SelectSeq(rows, LAMBDA r : r.Village \in Range(PROJECT_VILLAGES))
            ELSE rows
    IN  IF selected_village # "All"
        THEN SelectSeq(by_type, LAMBDA r : r.Village = selected_village)
        ELSE by_type

(* faulty variant: the overall count is taken from the filtered frame *)
kpi_of_selection(overall_progress_df, df_filtered) ==
    [ total_achieved_in_date_range |-> Len(df_filtered),
      total_achieved_in_selection  |-> Len(df_filtered),
      percentage_achieved |->
          IF OVERALL_TARGET > 0
          THEN [num |-> Len(df_filtered), den |-> OVERALL_TARGET]
          ELSE [num |-> 0, den |-> 1] ]

(* lines 197-199; the quotient is kept as numerator and denominator *)
kpi(overall_progress_df, df_filtered) ==
    [ total_achieved_in_date_range |-> Len(overall_progress_df),
      total_achieved_in_selection  |-> Len(df_filtered),
      percentage_achieved |->
          IF OVERALL_TARGET > 0
          THEN [num |-> Len(overall_progress_df), den |-> OVERALL_TARGET]
          ELSE [num |-> 0, den |-> 1] ]

(* line 211: groupby('Village').size(); groupby leaves out the NaN key *)
progress_by_village(df_filtered) ==
    [ v \in { df_filtered[i].Village : i \in 1..Len(df_filtered) } \ {NaN} |->
        Cardinality({ i \in 1..Len(df_filtered) : df_filtered[i].Village = v }) ]

(* lines 212-218: the catalog in dict order, restricted to the type *)
df_all_villages(village_type) ==
    LET all == [ i \in 1..Len(CERTIFIED_VILLAGES) |->
                    [Village |-> CERTIFIED_VILLAGES[i], Type |-> "Certified"] ]
               \o
               [ i \in 1..Len(PROJECT_VILLAGES) |->
                    [Village |-> PROJECT_VILLAGES[i], Type |-> "Project"] ]
    IN  IF village_type = "Certified Villages"
        THEN SelectSeq(all, LAMBDA r : r.Type = "Certified")
        ELSE IF village_type = "Project Villages"
        THEN SelectSeq(all, LAMBDA r : r.Type = "Project")
        ELSE all

(* faulty variant: how='inner', the villages without a count are lost *)
merge_inner(left, counts) ==
    LET kept == SelectSeq(left, LAMBDA r : r.Village \in DOMAIN counts)
    IN  [ i \in 1..Len(kept) |->
            [Village |-> kept[i].Village, Type |-> kept[i].Type,
             Achieved |-> counts[kept[i].Village]] ]

(* lines 219-220: pd.merge(how='left') then fillna(0).astype(int) *)
merge_left(left, counts) ==
    [ i \in 1..Len(left) |->
        [Village  |-> left[i].Village,
         Type     |-> left[i].Type,
         Achieved |-> IF left[i].Village \in DOMAIN counts
                      THEN counts[left[i].Village]
                      ELSE 0] ]

village_summary(df_filtered, village_type) ==
    merge_left(df_all_villages(village_type), progress_by_village(df_filtered))

(* the keys of a groupby in ascending order *)
RECURSIVE sorted_keys(_)
sorted_keys(S) ==
    IF S = {} THEN << >>
    ELSE LET m == CHOOSE x \in S : \A y \in S : x <= y
         IN  << m >> \o sorted_keys(S \ {m})

(* faulty variant: the rows are grouped by their timestamp, not their date *)
groupby_timestamp(df_filtered) ==
    LET stamp(r) == r.Date.day * 1440 + r.Date.tod
        keys == sorted_keys({ stamp(df_filtered[i]) : i \in 1..Len(df_filtered) })
    IN  [ k \in 1..Len(keys) |->
            [Date  |-> keys[k] \div 1440,
             Count |-> Cardinality({ i \in 1..Len(df_filtered) :
                                        stamp(df_filtered[i]) = keys[k] })] ]

(* line 227: groupby(df_filtered['Date'].dt.date).size() *)
groupby_date(df_filtered) ==
    LET keys == sorted_keys({ dt_date(df_filtered[i].Date) :
                                 i \in 1..Len(df_filtered) })
    IN  [ k \in 1..Len(keys) |->
            [Date  |-> keys[k],
             Count |-> Cardinality({ i \in 1..Len(df_filtered) :
                                        dt_date(df_filtered[i].Date) = keys[k] })] ]

(* line 236: sort_values('Date'), by insertion *)
RECURSIVE sort_values(_)
sort_values(points) ==
    IF Len(points) <= 1 THEN points
    ELSE LET rest == sort_values(Tail(points))
             p    == Head(points)
             lo   == SelectSeq(rest, LAMBDA q : q.Date < p.Date)
             hi   == SelectSeq(rest, LAMBDA q : q.Date >= p.Date)
         IN  lo \o << p >> \o hi

(* line 237: Count.cumsum() *)
RECURSIVE cumsum(_, _, _)
cumsum(points, i, acc) ==
    IF i > Len(points) THEN << >>
    ELSE << [Date       |-> points[i].Date,
             Count      |-> points[i].Count,
             Cumulative |-> acc + points[i].Count] >>
         \o cumsum(points, i + 1, acc + points[i].Count)

(* lines 227-237 *)
surveys_per_day(df_filtered) ==
    cumsum(sort_values(groupby_date(df_filtered)), 1, 0)

----------------------------------------------------------------------------
(* Tabs 2 and 3 *)

(* lines 252-264 *)
land_use_tab(df_gps) ==
    IF ~ df_gps.none
    THEN [kind |-> "chart",
          frequency |->
              [ l \in Range(df_gps.rows) |->
                  Cardinality({ i \in 1..Len(df_gps.rows) : df_gps.rows[i] = l }) ]]
    ELSE [kind |-> "warning", frequency |-> << >>]

(* lines 269-333; the geometry itself (bounds, centre) is not modelled *)
map_tab(map_error, gdf_farms, selected_farm_id) ==
    IF map_error # NoError
    THEN [kind |-> "error", zoom |-> 0, shown |-> {}]
    ELSE IF ~ gdf_farms.none /\ Len(gdf_farms.rows) > 0
    THEN LET gdf_to_display ==
                 IF selected_farm_id = "All Farms" THEN Range(gdf_farms.rows)
                 ELSE { f \in Range(gdf_farms.rows) : f = selected_farm_id }
         IN  IF ~ mapFile.crs
             THEN [kind |-> "creation_error", zoom |-> 0, shown |-> {}]
             ELSE [kind  |-> "map",
                   zoom  |-> IF selected_farm_id = "All Farms" THEN 12 ELSE 16,
                   shown |-> gdf_to_display]
    ELSE [kind |-> "warning", zoom |-> 0, shown |-> {}]

----------------------------------------------------------------------------
(* The script, top to bottom *)

widget(ws, key, default) == IF key \in DOMAIN ws THEN ws[key] ELSE default

NoTab1 ==
    [ warning |-> FALSE, start_date |-> NaT, end_date |-> NaT,
      overall_progress_df |-> << >>, df_filtered |-> << >>,
      kpi |-> [ total_achieved_in_date_range |-> 0,
                total_achieved_in_selection  |-> 0,
                percentage_achieved |-> [num |-> 0, den |-> 1] ],
      village_summary |-> << >>, surveys_per_day |-> << >> ]

NoTab == [kind |-> "none"]

(* an execution that did not reach the tabs *)
Stopped(run, message) ==
    [run |-> run, message |-> message, tab1 |-> NoTab1,
     tab2 |-> NoTab, tab3 |-> NoTab]

(* lines 16-40 *)
check_password(ss) ==
    IF "password_correct" \in DOMAIN ss THEN ss["password_correct"] ELSE FALSE

(* lines 19-25, the on_change callback of the password input *)
password_entered(ss) ==
    IF ss["password"] = PASSWORD
    THEN [ k \in (DOMAIN ss \cup {"password_correct"}) \ {"password"} |->
             IF k = "password_correct" THEN TRUE ELSE ss[k] ]
    ELSE ("password_correct" :> FALSE) @@ ss

(* lines 197-247 *)
aggregate(range, overall_progress_df, df_filtered, village_type) ==
    [ warning             |-> range.warning,
      start_date          |-> range.start,
      end_date            |-> range.end,
      overall_progress_df |-> overall_progress_df,
      df_filtered         |-> df_filtered,
      kpi                 |-> kpi(overall_progress_df, df_filtered),
      village_summary     |-> village_summary(df_filtered, village_type),
      surveys_per_day     |-> surveys_per_day(df_filtered) ]

(* lines 187-195 *)
filter_stage(df_raw, range, village_type, selected_village) ==
    aggregate(range,
              filter_dates(df_raw, range.start, range.end),
              filter_selection(filter_dates(df_raw, range.start, range.end),
                               village_type, selected_village),
              village_type)

(* lines 161-247 *)
survey_tab(df_raw, ws) ==
    filter_stage(df_raw,
                 date_range(widget(ws, "selected_dates", default_dates(df_raw)),
                            df_raw),
                 widget(ws, "village_type", "All"),
                 widget(ws, "selected_village", "All"))

(* the widget values after an execution that rendered the tabs *)
rendered_widgets(ws, df_raw, with_farm_box) ==
    (IF with_farm_box
     THEN ("selected_farm_id" :> widget(ws, "selected_farm_id", "All Farms"))
     ELSE << >>)
    @@ ("village_type" :> widget(ws, "village_type", "All"))
    @@ ("selected_village" :> widget(ws, "selected_village", "All"))
    @@ ("selected_dates" :> widget(ws, "selected_dates", default_dates(df_raw)))
    @@ ws

farm_box(ss) ==
    /\ ss["map_error"] = NoError
    /\ ~ ss["map_data"].none
    /\ Len(ss["map_data"].rows) > 0

(* lines 124-333: the script once the three sources are in session_state *)
render(ss, ws) ==
    IF ss["survey_error"] # NoError
    THEN [ws |-> ws, out |-> Stopped("survey_error", ss["survey_error"])]
    ELSE IF ss["survey_data"].none \/ Len(ss["survey_data"].rows) = 0
    THEN [ws |-> ws, out |-> Stopped("survey_empty", NoError)]
    ELSE [ws  |-> rendered_widgets(ws, ss["survey_data"].rows, farm_box(ss)),
          out |-> [run     |-> "done",
                   message |-> NoError,
                   tab1    |-> survey_tab(ss["survey_data"].rows, ws),
                   tab2    |-> land_use_tab(ss["gps_data"]),
                   tab3    |-> map_tab(ss["map_error"], ss["map_data"],
                                       widget(ws, "selected_farm_id",
                                              "All Farms"))]]

bump(ld, source) == [ld EXCEPT ![source] = @ + 1]

stored_survey(ss, ld, r) ==
    [ss    |-> ("survey_data" :> r.data) @@ ("survey_error" :> r.error) @@ ss,
     loads |-> bump(ld, "survey"),
     found |-> r.found]

(* lines 105-111 *)
load_survey_once(ss, ld) ==
    IF "survey_data" \notin DOMAIN ss
    THEN stored_survey(ss, ld, load_survey_data)
    ELSE [ss |-> ss, loads |-> ld, found |-> found_columns]

stored_gps(ss, ld, r) ==
    IF r.raised
    THEN [ss |-> ss, loads |-> bump(ld, "gps"), raised |-> TRUE]
    ELSE [ss     |-> ("gps_data" :> r.value) @@ ss,
          loads  |-> bump(ld, "gps"),
          raised |-> FALSE]

(* lines 113-114; raised: the exception of load_gps_data leaves the script *)
load_gps_once(ss, ld) ==
    IF "gps_data" \notin DOMAIN ss
    THEN stored_gps(ss, ld, load_gps_data)
    ELSE [ss |-> ss, loads |-> ld, raised |-> FALSE]

stored_map(ss, ld, r) ==
    [ss    |-> ("map_data" :> r.data) @@ ("map_error" :> r.error) @@ ss,
     loads |-> bump(ld, "map")]

(* lines 116-122 *)
load_map_once(ss, ld) ==
    IF "map_data" \notin DOMAIN ss
    THEN stored_map(ss, ld, load_map_data)
    ELSE [ss |-> ss, loads |-> ld]

(* lines 124-333 on the session state m the loading block leaves *)
script_tabs(m, ws, found, r) ==
    [ss |-> m.ss, ws |-> r.ws, loads |-> m.loads, found |-> found,
     out |-> r.out]

script_after_map(m, ws, found) == script_tabs(m, ws, found, render(m.ss, ws))

(* lines 116-122 onwards, unless load_gps_data raised at line 114 *)
script_after_gps(g, ws, found) ==
    IF g.raised
    THEN [ss |-> g.ss, ws |-> ws, loads |-> g.loads, found |-> found,
          out |-> Stopped("exception", NoError)]
    ELSE script_after_map(load_map_once(g.ss, g.loads), ws, found)

(* lines 113-114 onwards *)
script_after_survey(s, ws) ==
    script_after_gps(load_gps_once(s.ss, s.loads), ws, s.found)

(* one execution of the script on session state ss and widget values ws *)
script(ss, ws) ==
    IF ~ check_password(ss)
    THEN [ss |-> ss, ws |-> ws, loads |-> loads, found |-> found_columns,
          out |-> Stopped("gate", NoError)]
    ELSE script_after_survey(load_survey_once(ss, loads), ws)

Commit(e) ==
    /\ session_state' = e.ss
    /\ widgets' = e.ws
    /\ loads' = e.loads
    /\ found_columns' = e.found
    /\ out' = e.out
    /\ UNCHANGED <<surveyFile, gpsFile, mapFile>>

Execute(ss, ws) == Commit(script(ss, ws))

----------------------------------------------------------------------------
(* User interactions; each re-executes the script *)

CanRun == \A src \in DOMAIN loads : loads[src] < MaxLoads

Passwords == {PASSWORD, "guess"}

(* the password input is shown while check_password is false *)
EnterPassword ==
    /\ out.run = "gate"
    /\ CanRun
    /\ \E pw \in Passwords :
         Execute(password_entered(("password" :> pw) @@ session_state), widgets)

(* a rerun without any widget change *)
Rerun ==
    /\ out.run # "gate"
    /\ CanRun
    /\ Execute(session_state, widgets)

SelectVillageType ==
    /\ out.run = "done"
    /\ CanRun
    /\ \E v \in village_type_options :
         Execute(session_state, ("village_type" :> v) @@ widgets)

SelectVillage ==
    /\ out.run = "done"
    /\ CanRun
    /\ \E v \in village_list :
         Execute(session_state, ("selected_village" :> v) @@ widgets)

(* what st.date_input can return: no, one or two dates, each within        *)
(* [min_value, max_value]                                                  *)
date_choices(df_raw) ==
    LET days == dt_date(min_date(df_raw)) .. dt_date(max_date(df_raw))
    IN  UNION { [1..n -> days] : n \in 0..2 }

SelectDates ==
    /\ out.run = "done"
    /\ CanRun
    /\ \E d \in date_choices(session_state["survey_data"].rows) :
         Execute(session_state, ("selected_dates" :> d) @@ widgets)

SelectFarm ==
    /\ out.run = "done"
    /\ "selected_farm_id" \in DOMAIN widgets
    /\ CanRun
    /\ \E f \in {"All Farms"} \cup Range(session_state["map_data"].rows) :
         Execute(session_state, ("selected_farm_id" :> f) @@ widgets)

Next ==
    \/ EnterPassword
    \/ Rerun
    \/ SelectVillageType
    \/ SelectVillage
    \/ SelectDates
    \/ SelectFarm

----------------------------------------------------------------------------
(* Files the session can meet *)

(* the rows a survey export is made of in SpecData: two records of the     *)
(* same day at different times, records of a second day, a record without  *)
(* village and records whose date does not parse                           *)
SurveyRows ==
    { [today |-> "01/01/2024",       Comunidad |-> "huicungo"],
      [today |-> "01/01/2024 10:00", Comunidad |-> "Vista Alegre"],
      [today |-> "02/01/2024 10:00", Comunidad |-> "huicungo"],
      [today |-> "02/01/2024 10:00", Comunidad |-> NaN],
      [today |-> "n/a",              Comunidad |-> "Vista Alegre"],
      [today |-> "n/a",              Comunidad |-> NaN] }

Table(columns, rows) == [kind |-> "ok", columns |-> columns, rows |-> rows]

NoTable(kind) == [kind |-> kind, columns |-> {}, rows |-> << >>]

GpsOk == [kind |-> "ok", rows |-> << "coffee_farm", "forest", "coffee_farm" >>]

GpsFiles == { [kind |-> k, rows |-> << >>] : k \in {"missing", "notype", "unreadable"} }
            \cup {GpsOk}

MapOk == [kind |-> "ok", crs |-> TRUE, rows |-> << "F1" >>]

MapFiles ==
    { [kind |-> k, crs |-> FALSE, rows |-> << >>] : k \in {"missing", "nocolumn"} }
    \cup { [kind |-> "ok", crs |-> TRUE, rows |-> << >>],
           [kind |-> "ok", crs |-> FALSE, rows |-> << "F1" >>],
           MapOk }

(* tables with the columns today and Comunidad and up to MaxRows rows *)
DataTables ==
    { Table({"today", "Comunidad"}, rows) :
        rows \in UNION { [1..n -> SurveyRows] : n \in 0..MaxRows } }

ColumnNames == Range(column_map["Date"]) \cup Range(column_map["Village"])
               \cup {"farmer_id"}

SampleCell ==
    [ c \in ColumnNames |->
        CASE c = "today"     -> "01/01/2024"
          [] c = "Date"      -> "01/01/2024 10:00"
          [] c = "date"      -> "02/01/2024 10:00"
          [] c = "Fecha"     -> "n/a"
          [] c = "village"   -> "huicungo"
          [] c = "Village"   -> "Vista Alegre"
          [] c = "Aldea"     -> NaN
          [] c = "Comunidad" -> "la perla"
          [] OTHER           -> "17" ]

(* one-row tables over every set of column names *)
SchemaTables ==
    { Table(cs, << [c \in cs |-> SampleCell[c]] >>) : cs \in SUBSET ColumnNames }

SessionTables ==
    { NoTable("missing"), NoTable("unreadable"),
      Table({"farmer_id"}, << [c \in {"farmer_id"} |-> "17"] >>),
      Table({"Fecha", "village"}, << >>),
      Table({"Fecha", "village"},
            << [Fecha |-> "01/01/2024", village |-> "huicungo"] >>),
      Table({"Fecha", "village"},
            << [Fecha |-> "01/01/2024", village |-> "huicungo"],
               [Fecha |-> "02/01/2024 10:00", village |-> "Vista Alegre"] >>) }

(* the state after the first execution: the password gate stops it *)
FirstPage ==
    /\ session_state = << >>
    /\ widgets = << >>
    /\ found_columns = << >>
    /\ loads = [survey |-> 0, gps |-> 0, map |-> 0]
    /\ out = Stopped("gate", NoError)

Init ==
    /\ surveyFile \in SessionTables
    /\ gpsFile \in GpsFiles
    /\ mapFile \in MapFiles
    /\ FirstPage

InitData ==
    /\ surveyFile \in DataTables
    /\ gpsFile = GpsOk
    /\ mapFile = MapOk
    /\ FirstPage

InitSchema ==
    /\ surveyFile \in SchemaTables
    /\ gpsFile = GpsOk
    /\ mapFile = MapOk
    /\ FirstPage

Spec == Init /\ [][Next]_vars

SpecData == InitData /\ [][Next]_vars

SpecSchema == InitSchema /\ [][Next]_vars

----------------------------------------------------------------------------
(* Properties *)

Done == out.run = "done"

SurveyLoaded == "survey_data" \in DOMAIN session_state

df_raw == session_state["survey_data"].rows

selected_dates == widgets["selected_dates"]

(* the catalog restricted to the selected group *)
CatalogOf(village_type) ==
    IF village_type = "Certified Villages" THEN Range(CERTIFIED_VILLAGES)
    ELSE IF village_type = "Project Villages" THEN Range(PROJECT_VILLAGES)
    ELSE Range(CERTIFIED_VILLAGES) \cup Range(PROJECT_VILLAGES)

(* the survey file can be loaded and holds at least one dated record *)
SurveyUsable ==
    /\ load_survey_data.error = NoError
    /\ Len(load_survey_data.data.rows) > 0

(* C1: each of the three sources is loaded at most once in a session,      *)
(* whatever failure its load raised: no load function is called twice.     *)
C1_LoadedAtMostOnce == \A src \in DOMAIN loads : loads[src] <= 1

(* C2: failure isolation.  A survey that fails to load stops the execution *)
(* before any filtering or aggregation; when the survey is usable, a       *)
(* failure of the geo-secondary or of the polygon source, of any kind,     *)
(* only replaces that source's section by a warning or an error and the    *)
(* execution still computes the KPI, village and time-series sections.     *)
C2_FailureIsolation ==
    out.run # "gate" =>
        /\ load_survey_data.error # NoError =>
              out.run # "done" /\ out.tab1 = NoTab1
        /\ SurveyUsable =>
              /\ out.run = "done"
              /\ gpsFile.kind # "ok" => out.tab2.kind = "warning"
              /\ mapFile.kind # "ok" => out.tab3.kind = "error"

(* C3: a date range that is incomplete (not exactly two dates) or inverted *)
(* (start after end) is replaced by the full observed range               *)
(* [min Date, max Date] with the warning raised, so that the count in the  *)
(* date range is the count of the whole canonical dataset.                 *)
C3_InvalidRangeSubstituted ==
    (Done /\ (Len(selected_dates) # 2 \/ selected_dates[1] > selected_dates[2]))
    => /\ out.tab1.warning
       /\ out.tab1.start_date = min_date(df_raw)
       /\ out.tab1.end_date = max_date(df_raw)
       /\ out.tab1.kpi.total_achieved_in_date_range = Len(df_raw)

(* C4: for every filter and dataset the village table has each village of  *)
(* the catalog restricted to the selected group exactly once (15 for All,  *)
(* 12 Certified, 3 Project); Achieved is the number of fully filtered      *)
(* records of the village, 0 where there are none.                         *)
C4_VillageProgressCoversCatalog ==
    Done =>
        LET table   == out.tab1.village_summary
            catalog == CatalogOf(widgets["village_type"])
        IN  /\ { table[i].Village : i \in 1..Len(table) } = catalog
            /\ Len(table) = Cardinality(catalog)
            /\ Len(table) = CASE widgets["village_type"] = "Certified Villages" -> 12
                              [] widgets["village_type"] = "Project Villages" -> 3
                              [] OTHER -> 15
            /\ \A i \in 1..Len(table) :
                  /\ table[i].Achieved =
                        Cardinality({ j \in 1..Len(out.tab1.df_filtered) :
                            out.tab1.df_filtered[j].Village = table[i].Village })
                  /\ table[i].Type =
                        IF table[i].Village \in Range(PROJECT_VILLAGES)
                        THEN "Project" ELSE "Certified"

(* C4 witness: the Project group is selected, one of its villages has      *)
(* records and another has none.                                           *)
C4_Witness ==
    /\ Done
    /\ widgets["village_type"] = "Project Villages"
    /\ \E i, j \in 1..Len(out.tab1.village_summary) :
          /\ out.tab1.village_summary[i].Achieved > 0
          /\ out.tab1.village_summary[j].Achieved = 0

(* C5: the time series has one point per calendar date with at least one   *)
(* fully filtered record and none for the other dates, is sorted ascending *)
(* by date, its cumulative column is the running sum of the counts, which  *)
(* never decreases, and its last cumulative value is the number of fully   *)
(* filtered records.                                                       *)
C5_TimeSeriesExact ==
    Done =>
        LET series == out.tab1.surveys_per_day
            rows   == out.tab1.df_filtered
        IN  /\ { series[i].Date : i \in 1..Len(series) }
                 = { dt_date(rows[j].Date) : j \in 1..Len(rows) }
            /\ \A i \in 1..Len(series) :
                  /\ series[i].Count =
                        Cardinality({ j \in 1..Len(rows) :
                                         dt_date(rows[j].Date) = series[i].Date })
                  /\ series[i].Count >= 1
                  /\ series[i].Cumulative =
                        series[i].Count
                        + (IF i = 1 THEN 0 ELSE series[i - 1].Cumulative)
                  /\ i > 1 => /\ series[i - 1].Date < series[i].Date
                              /\ series[i - 1].Cumulative <= series[i].Cumulative
            /\ out.tab1.kpi.total_achieved_in_selection =
                  IF Len(series) = 0 THEN 0 ELSE series[Len(series)].Cumulative

(* C5 witness: two records of the same day at different times of day make  *)
(* one point of count 2.                                                   *)
C5_Witness ==
    /\ Done
    /\ Len(out.tab1.surveys_per_day) = 1
    /\ out.tab1.surveys_per_day[1].Count = 2
    /\ out.tab1.surveys_per_day[1].Cumulative = 2
    /\ \E i, j \in 1..Len(out.tab1.df_filtered) :
          /\ out.tab1.df_filtered[i].Date.day = out.tab1.df_filtered[j].Date.day
          /\ out.tab1.df_filtered[i].Date.tod # out.tab1.df_filtered[j].Date.tod

(* a record lies in the selected group *)
InGroup(r, village_type) ==
    village_type = "All" \/ r.Village \in CatalogOf(village_type)

(* C6: for a valid filter the fully filtered dataset is exactly the        *)
(* records whose calendar date lies in [start, end], both days included    *)
(* whatever the time of day, whose village is in the selected group and,   *)
(* when a village is selected, whose village is that village.              *)
C6_FilteredIsExactSubset ==
    (Done /\ Len(selected_dates) = 2 /\ selected_dates[1] <= selected_dates[2])
    => out.tab1.df_filtered =
          SelectSeq(df_raw,
                    LAMBDA r :
                        /\ selected_dates[1] <= dt_date(r.Date)
                        /\ dt_date(r.Date) <= selected_dates[2]
                        /\ InGroup(r, widgets["village_type"])
                        /\ (widgets["selected_village"] # "All"
                              => r.Village = widgets["selected_village"]))

(* the raw rows of the survey file whose date cell parses *)
ParsableRows ==
    { i \in 1..Len(surveyFile.rows) :
         to_datetime(surveyFile.rows[i][found_columns["Date"]]) # NaT }

PresentCandidates(field) ==
    { i \in 1..Len(column_map[field]) : column_map[field][i] \in surveyFile.columns }

(* C8: Date resolves to the first of its candidates among the headers and  *)
(* Village to the first of its own, each whatever the other resolves to;   *)
(* the mapping is determined by the header set.                            *)
C8_FirstCandidateWins ==
    (loads["survey"] >= 1 /\ surveyFile.kind = "ok") =>
        \A field \in DOMAIN column_map :
            /\ field \in DOMAIN found_columns <=> PresentCandidates(field) # {}
            /\ field \in DOMAIN found_columns =>
                  \E i \in PresentCandidates(field) :
                      /\ found_columns[field] = column_map[field][i]
                      /\ \A j \in PresentCandidates(field) : i <= j

(* C8 witness: both fields have two candidates among the headers, neither  *)
(* the first of its list, and the other field's first candidate is absent. *)
C8_Witness ==
    /\ loads["survey"] >= 1
    /\ surveyFile.columns = {"date", "Fecha", "Aldea", "Comunidad", "farmer_id"}
    /\ found_columns = [Date |-> "date", Village |-> "Aldea"]

(* the required fields that no header resolves *)
MissingFields == { f \in DOMAIN column_map : PresentCandidates(f) = {} }

(* C9: when a required field cannot be resolved the survey load fails with *)
(* an error whose detail names every missing field and lists the actual    *)
(* headers, the survey source is in Error with that detail and no          *)
(* aggregation runs.                                                       *)
C9_SchemaErrorNamesMissing ==
    (loads["survey"] >= 1 /\ surveyFile.kind = "ok" /\ MissingFields # {}) =>
        /\ session_state["survey_error"] # NoError
        /\ session_state["survey_error"].names = MissingFields
        /\ session_state["survey_error"].found = surveyFile.columns
        /\ out.run = "survey_error"
        /\ out.message = session_state["survey_error"]
        /\ out.tab1 = NoTab1

(* C10: the count in the date range and the percentage are determined by   *)
(* the dataset and the date range alone, whatever group and village are    *)
(* selected; the percentage is that count over the target, 0 for a target  *)
(* that is not positive; the count of the selection never exceeds it.      *)
C10_OverallIndependentOfSelection ==
    Done =>
        LET in_range == { i \in 1..Len(df_raw) :
                             /\ TsLeq(out.tab1.start_date, df_raw[i].Date)
                             /\ TsLeq(df_raw[i].Date, out.tab1.end_date) }
            k == out.tab1.kpi
        IN  /\ out.tab1.start_date = date_range(selected_dates, df_raw).start
            /\ out.tab1.end_date = date_range(selected_dates, df_raw).end
            /\ k.total_achieved_in_date_range = Cardinality(in_range)
            /\ k.percentage_achieved =
                  IF OVERALL_TARGET > 0
                  THEN [num |-> Cardinality(in_range), den |-> OVERALL_TARGET]
                  ELSE [num |-> 0, den |-> 1]
            /\ k.total_achieved_in_selection <= k.total_achieved_in_date_range

(* C10 witness: a village is selected whose records are fewer than the     *)
(* records of the date range.                                              *)
C10_Witness ==
    /\ Done
    /\ widgets["selected_village"] = "VISTA ALEGRE"
    /\ out.tab1.kpi.total_achieved_in_selection = 1
    /\ out.tab1.kpi.total_achieved_in_date_range = 2

====
